---------------------------- MODULE Spec2Model ----------------------------
(* Model of the manifest generation pipeline of src/src/main.ts:           *)
(* run() -> generateManifest(): directory scan, validation of every        *)
(* descriptor, carry-forward merge from an existing manifest file,         *)
(* sequential per-add-on resolution, serialisation.                        *)
EXTENDS Integers, Sequences, FiniteSets, TLC

(***************************************************************************)
(* Bounds of the model.                                                    *)
(***************************************************************************)
MaxFiles == 3      \* files in the add-ons directory
MaxOld   == 2      \* entries in a manifest file that exists before the run
MaxRuns  == 2      \* successive runs on the same directory and manifest path
MaxCalls == 3      \* addAddonName calls in the alias specification

(***************************************************************************)
(* Optional values: undefined is the empty sequence, a defined value v is  *)
(* the one-element sequence <<v>>.                                         *)
(***************************************************************************)
None == << >>
Some(v) == << v >>

ManifestFile == "manifest.json"

\* JavaScript truthiness of `manifestPath` (string | undefined), lines 106, 146
Truthy(p) == p # None /\ p[1] # ""

(***************************************************************************)
(* Add-on records (type Addon of ./schema, as used by main.ts).            *)
(***************************************************************************)
OptionalFields == {"release", "prerelease", "addon_names"}

MkAddon(id, name, host, rel, pre, names) ==
  [package |-> [id |-> id, name |-> name], host |-> host,
   release |-> rel, prerelease |-> pre, addon_names |-> names]

\* the three carry-forward fields of an add-on
Carried(a) == <<a.release, a.prerelease, a.addon_names>>

\* Set of elements of a sequence
Range(s) == {s[i] : i \in 1..Len(s)}

\* Array.prototype.includes
Includes(arr, x) == \E i \in 1..Len(arr) : arr[i] = x

\* variant: appends without the includes test of line 14
addAddonNameNoCheck(addon, name) ==
  IF addon.addon_names = None
    THEN [addon EXCEPT !.addon_names = Some(<<name>>)]
    ELSE [addon EXCEPT !.addon_names = Some(Append(addon.addon_names[1], name))]

\* addAddonName, main.ts lines 10-18 (in-place mutation returned as a value)
addAddonName(addon, name) ==
  IF addon.addon_names = None
    THEN [addon EXCEPT !.addon_names = Some(<<name>>)]
    ELSE IF ~Includes(addon.addon_names[1], name)
           THEN [addon EXCEPT !.addon_names = Some(Append(addon.addon_names[1], name))]
           ELSE addon

\* variant: dispatches every host to the github resolver
updateAlwaysGithub(addon) == "updateFromGithub"

\* update, main.ts lines 20-26: which resolver is awaited for an add-on
update(addon) ==
  IF addon.host = "github" THEN "updateFromGithub"
  ELSE IF addon.host = "standalone" THEN "updateStandalone"
  ELSE "none"

(***************************************************************************)
(* JSON. A JSON document is modelled by its tree: an array is              *)
(* [type |-> "array", items |-> ...], the manifest object is               *)
(* [type |-> "object", addons |-> ...]. An add-on is serialised to a       *)
(* function over the keys whose value is defined: JSON.stringify omits     *)
(* undefined properties, and reading a missing property yields undefined.  *)
(***************************************************************************)
StringifyAddon(a) ==
  [k \in {"package", "host"} \cup {f \in OptionalFields : a[f] # None} |->
     IF k \in OptionalFields THEN a[k][1] ELSE a[k]]

\* JSON.stringify(manifest) with manifest = { addons }, lines 141-149
JSONstringify(as) ==
  [type |-> "object", addons |-> [i \in 1..Len(as) |-> StringifyAddon(as[i])]]

\* property read on a parsed JSON object: existingAddon.release etc.
Prop(e, k) == IF k \in DOMAIN e THEN Some(e[k]) ELSE None

\* `for (const x of v)` needs an iterable: arrays are, plain objects are not
Iterable(json) == json.type = "array"

(***************************************************************************)
(* Inputs.                                                                 *)
(***************************************************************************)
\* descriptor files that pass the schema
Descriptors ==
  { MkAddon("a1", "Alpha", "github", None, None, None),
    MkAddon("a2", "Beta", "standalone", Some("0.9.0"), None, Some(<<"Beta">>)),
    MkAddon("a1", "Alpha Two", "standalone", None, None, None) }

\* what reading and parsing one file of the directory does (lines 78, 81)
Files ==
  { [kind |-> "ok", config |-> d, errors |-> << >>] : d \in Descriptors } \cup
  { [kind |-> "zod", config |-> None, errors |-> <<"Required">>],
    [kind |-> "zod", config |-> None, errors |-> <<"Required", "Invalid host">>],
    [kind |-> "unreadable", config |-> None, errors |-> << >>],
    [kind |-> "syntax", config |-> None, errors |-> << >>] }

SeqsUpTo(S, n) == UNION { [1..k -> S] : k \in 0..n }

\* entries of a manifest file that exists before the run
OldEntries ==
  { StringifyAddon(MkAddon(id, "Old", "github", t[1], t[2], t[3])) :
      id \in {"a1", "a2"},
      t \in { <<None, None, None>>,
              <<Some("1.2.0"), Some("1.3.0-rc"), Some(<<"Foo">>)>> } }

OldManifests ==
  { [type |-> "array", items |-> s] : s \in SeqsUpTo(OldEntries, MaxOld) } \cup
  { [type |-> "object", addons |-> s] : s \in SeqsUpTo(OldEntries, MaxOld) }

Names == {"Foo", "Bar", "Baz"}

(***************************************************************************)
(* Resolvers (./github, ./standalone): they mutate the add-on in place     *)
(* and either return or throw, possibly after a partial write.             *)
(***************************************************************************)
NewRelease == "2.0.0"
ResolvedName == "Bar"

ResolverOutcomes(addon) ==
  { [addon |-> addAddonName([addon EXCEPT !.release = Some(NewRelease)], ResolvedName),
     threw |-> FALSE],
    [addon |-> addon, threw |-> TRUE],
    [addon |-> [addon EXCEPT !.release = Some(NewRelease)], threw |-> TRUE] }

(***************************************************************************)
(* State.                                                                  *)
(***************************************************************************)
VARIABLES
  caller,           \* "run" (the action entry point) or "direct" (generateManifest called)
  input,            \* the manifest_path input read by run()
  dirExists,        \* fs.existsSync(addonsPath)
  dir,              \* files of addonsPath in enumeration order
  file,             \* content of the manifest file, None when it does not exist
  startFile,        \* content of the manifest file when the current run started
  runNo,            \* number of the current run
  pc,               \* position in run()/generateManifest()
  manifestPath,     \* argument of generateManifest
  addons,           \* const addons: Addon[]
  encounteredValidationError,
  fileIdx,          \* position of the readdirSync loop
  existingManifest, \* the parsed existing manifest being iterated
  existingIdx,      \* position of the carry-forward loop
  manifestRead,     \* the existing manifest file has been read in this run
  addonIdx,         \* position of the update loop
  inflight,         \* add-ons whose resolver has been started and not settled
  calls,            \* resolver invocations of this run, in order, with their outcome
  validationLog,    \* core.error calls of the scan: file index and message
  warnings,         \* core.warning calls: removed add-on ids
  updateLog,        \* core.error calls of the update loop: package names
  stdout,           \* manifests printed by console.log
  writes,           \* fs.writeFileSync calls of this run
  thrown,           \* the error that left generateManifest, if any
  setFailed,        \* the message passed to core.setFailed, if any
  nmAddon,          \* alias specification: the add-on under test
  nmInit,           \* alias specification: its addon_names before any call
  nmCalls           \* alias specification: names passed to addAddonName

runVars == <<pc, manifestPath, addons, encounteredValidationError, fileIdx,
             existingManifest, existingIdx, manifestRead, addonIdx, inflight,
             calls, validationLog, warnings, updateLog, stdout, writes,
             thrown, setFailed>>
envVars == <<caller, input, dirExists, dir, file, startFile, runNo>>
nmVars  == <<nmAddon, nmInit, nmCalls>>
vars    == <<envVars, runVars, nmVars>>

NoDirectory == "Addon directory does not exist"
InvalidManifestPath == "Invalid manifest path. Set to undefined to output to STDOUT."
ValidationFailed == "Validation of some addons failed"
ReadError == "ENOENT/EISDIR: cannot read file"
SyntaxError == "SyntaxError in TOML"
NotIterable == "TypeError: existingManifest is not iterable"

IdleAddon == MkAddon("a1", "Alpha", "github", None, None, None)

\* the per-run state at the beginning of a run
RunInit ==
  /\ addons = << >>
  /\ encounteredValidationError = FALSE
  /\ fileIdx = 1
  /\ existingManifest = << >>
  /\ existingIdx = 1
  /\ manifestRead = FALSE
  /\ addonIdx = 1
  /\ inflight = {}
  /\ calls = << >>
  /\ validationLog = << >>
  /\ warnings = << >>
  /\ updateLog = << >>
  /\ stdout = << >>
  /\ writes = 0
  /\ thrown = None
  /\ setFailed = None

Init ==
  /\ runNo = 1
  /\ dirExists \in BOOLEAN
  /\ dir \in (IF dirExists THEN SeqsUpTo(Files, MaxFiles) ELSE {<< >>})
  /\ \/ /\ caller = "run"
        /\ input \in {"", ManifestFile}
        /\ manifestPath = None
        /\ pc = "run"
     \/ /\ caller = "direct"      \* the one argument run() never passes
        /\ input = ""
        /\ manifestPath = Some("")
        /\ pc = "generate"
  /\ file \in (IF input = ManifestFile
                 THEN {None} \cup {Some(m) : m \in OldManifests}
                 ELSE {None})
  /\ startFile = file
  /\ RunInit
  /\ nmAddon = IdleAddon /\ nmInit = None /\ nmCalls = << >>

(***************************************************************************)
(* Errors: an exception leaving generateManifest is caught by run(), which *)
(* calls core.setFailed (lines 41-46); a direct caller just receives it.   *)
(***************************************************************************)
\* variant: run() swallows the error without core.setFailed
ThrowNoSetFailed(msg) ==
  /\ thrown' = Some(msg)
  /\ setFailed' = None
  /\ pc' = "failed"

Throw(msg) ==
  /\ thrown' = Some(msg)
  /\ setFailed' = IF caller = "run" THEN Some(msg) ELSE None
  /\ pc' = "failed"

\* variant: every parse error is taken for a validation error
isZodErrorLikeAlways(kind) == TRUE

\* isZodErrorLike(error), line 84
isZodErrorLike(kind) == kind = "zod"

(***************************************************************************)
(* Actions.                                                                *)
(***************************************************************************)
\* run(), lines 29-40
Run ==
  /\ pc = "run"
  /\ manifestPath' = IF input # "" THEN Some(input) ELSE None
  /\ pc' = "generate"
  /\ UNCHANGED <<envVars, nmVars, addons, encounteredValidationError, fileIdx,
                 existingManifest, existingIdx, manifestRead, addonIdx, inflight,
                 calls, validationLog, warnings, updateLog, stdout, writes,
                 thrown, setFailed>>

\* generateManifest, lines 56-73
GenerateStart ==
  /\ pc = "generate"
  /\ IF ~dirExists THEN Throw(NoDirectory)
     ELSE IF manifestPath = Some("") THEN Throw(InvalidManifestPath)
     ELSE /\ pc' = "scan"
          /\ UNCHANGED <<thrown, setFailed>>
  /\ addons' = << >>
  /\ encounteredValidationError' = FALSE
  /\ fileIdx' = 1
  /\ UNCHANGED <<envVars, nmVars, manifestPath, existingManifest, existingIdx,
                 manifestRead, addonIdx, inflight, calls, validationLog,
                 warnings, updateLog, stdout, writes>>

\* one iteration of the readdirSync loop, lines 76-98
ScanFile ==
  /\ pc = "scan"
  /\ fileIdx <= Len(dir)
  /\ LET f == dir[fileIdx] IN
       IF f.kind = "unreadable"
         THEN \* readFileSync throws outside the try block, line 78
              /\ Throw(ReadError)
              /\ UNCHANGED <<addons, encounteredValidationError, fileIdx, validationLog>>
       ELSE IF f.kind = "ok"
         THEN /\ addons' = Append(addons, f.config)
              /\ fileIdx' = fileIdx + 1
              /\ UNCHANGED <<pc, thrown, setFailed, encounteredValidationError,
                             validationLog>>
       ELSE IF isZodErrorLike(f.kind)
         THEN /\ encounteredValidationError' = TRUE
              /\ validationLog' = validationLog \o
                   [j \in 1..Len(f.errors) |-> [file |-> fileIdx, message |-> f.errors[j]]]
              /\ fileIdx' = fileIdx + 1
              /\ UNCHANGED <<pc, thrown, setFailed, addons>>
       ELSE \* rethrow, line 95
              /\ Throw(SyntaxError)
              /\ UNCHANGED <<addons, encounteredValidationError, fileIdx, validationLog>>
  /\ UNCHANGED <<envVars, nmVars, manifestPath, existingManifest, existingIdx,
                 manifestRead, addonIdx, inflight, calls, warnings, updateLog,
                 stdout, writes>>

\* variant: the flag test of line 101 is missing
CheckValidationNever ==
  /\ pc = "scan"
  /\ fileIdx > Len(dir)
  /\ pc' = "load"
  /\ UNCHANGED <<thrown, setFailed>>
  /\ UNCHANGED <<envVars, nmVars, manifestPath, addons, encounteredValidationError,
                 fileIdx, existingManifest, existingIdx, manifestRead, addonIdx,
                 inflight, calls, validationLog, warnings, updateLog, stdout, writes>>

\* end of the scan, lines 100-103
CheckValidation ==
  /\ pc = "scan"
  /\ fileIdx > Len(dir)
  /\ IF encounteredValidationError
       THEN Throw(ValidationFailed)
       ELSE /\ pc' = "load"
            /\ UNCHANGED <<thrown, setFailed>>
  /\ UNCHANGED <<envVars, nmVars, manifestPath, addons, encounteredValidationError,
                 fileIdx, existingManifest, existingIdx, manifestRead, addonIdx,
                 inflight, calls, validationLog, warnings, updateLog, stdout, writes>>

\* lines 106-111: read and parse the existing manifest, start iterating it
LoadManifest ==
  /\ pc = "load"
  /\ IF Truthy(manifestPath) /\ file # None
       THEN /\ manifestRead' = TRUE
            /\ IF Iterable(file[1])
                 THEN /\ existingManifest' = file[1].items
                      /\ pc' = IF file[1].items = << >> THEN "resolve" ELSE "merge"
                      /\ UNCHANGED <<thrown, setFailed>>
                 ELSE /\ Throw(NotIterable)
                      /\ UNCHANGED existingManifest
       ELSE /\ pc' = "resolve"
            /\ UNCHANGED <<manifestRead, existingManifest, thrown, setFailed>>
  /\ existingIdx' = 1
  /\ UNCHANGED <<envVars, nmVars, manifestPath, addons, encounteredValidationError,
                 fileIdx, addonIdx, inflight, calls, validationLog, warnings,
                 updateLog, stdout, writes>>

\* addons.find(value => value.package.id === id), line 112: first match or 0
Find(as, id) ==
  IF \E i \in 1..Len(as) : as[i].package.id = id
    THEN CHOOSE i \in 1..Len(as) :
           /\ as[i].package.id = id
           /\ \A j \in 1..(i - 1) : as[j].package.id # id
    ELSE 0

\* one iteration of the carry-forward loop, lines 111-125
MergeEntry ==
  /\ pc = "merge"
  /\ existingIdx <= Len(existingManifest)
  /\ LET existingAddon == existingManifest[existingIdx]
         found == Find(addons, existingAddon.package.id)
     IN IF found = 0
          THEN /\ warnings' = Append(warnings, existingAddon.package.id)
               /\ UNCHANGED addons
          ELSE /\ addons' = [addons EXCEPT ![found] =
                    [@ EXCEPT !.release = Prop(existingAddon, "release"),
                              !.prerelease = Prop(existingAddon, "prerelease"),
                              !.addon_names = Prop(existingAddon, "addon_names")]]
               /\ UNCHANGED warnings
  /\ existingIdx' = existingIdx + 1
  /\ pc' = IF existingIdx + 1 > Len(existingManifest) THEN "resolve" ELSE "merge"
  /\ UNCHANGED <<envVars, nmVars, manifestPath, encounteredValidationError,
                 fileIdx, existingManifest, manifestRead, addonIdx, inflight,
                 calls, validationLog, stdout, writes, updateLog, thrown, setFailed>>

\* lines 129-131 and update(): the resolver of the next add-on is started
ResolveCall ==
  /\ pc = "resolve"
  /\ inflight = {}
  /\ addonIdx <= Len(addons)
  /\ calls' = Append(calls, [addon |-> addonIdx, resolver |-> update(addons[addonIdx]),
                             status |-> "pending"])
  /\ inflight' = {addonIdx}
  /\ UNCHANGED <<envVars, nmVars, pc, manifestPath, addons,
                 encounteredValidationError, fileIdx, existingManifest,
                 existingIdx, manifestRead, addonIdx, validationLog, warnings,
                 updateLog, stdout, writes, thrown, setFailed>>

\* variant: no try/catch around `await update(addon)`
ResolveSettleNoCatch ==
  /\ pc = "resolve"
  /\ inflight = {addonIdx}
  /\ \E out \in ResolverOutcomes(addons[addonIdx]) :
       /\ addons' = [addons EXCEPT ![addonIdx] = out.addon]
       /\ calls' = [calls EXCEPT ![Len(calls)].status =
                                 IF out.threw THEN "threw" ELSE "returned"]
       /\ IF out.threw
            THEN Throw("resolver error")
            ELSE UNCHANGED <<pc, thrown, setFailed>>
  /\ inflight' = {}
  /\ addonIdx' = addonIdx + 1
  /\ UNCHANGED <<envVars, nmVars, manifestPath, encounteredValidationError,
                 fileIdx, existingManifest, existingIdx, manifestRead,
                 validationLog, warnings, updateLog, stdout, writes>>

\* lines 131-138: the awaited resolver returns or throws; a throw is caught
\* and logged with the add-on's package.name
ResolveSettle ==
  /\ pc = "resolve"
  /\ inflight = {addonIdx}
  /\ \E out \in ResolverOutcomes(addons[addonIdx]) :
       /\ addons' = [addons EXCEPT ![addonIdx] = out.addon]
       /\ updateLog' = IF out.threw
                         THEN Append(updateLog, addons[addonIdx].package.name)
                         ELSE updateLog
       /\ calls' = [calls EXCEPT ![Len(calls)].status =
                                 IF out.threw THEN "threw" ELSE "returned"]
  /\ inflight' = {}
  /\ addonIdx' = addonIdx + 1
  /\ UNCHANGED <<envVars, nmVars, pc, manifestPath, encounteredValidationError,
                 fileIdx, existingManifest, existingIdx, manifestRead,
                 validationLog, warnings, stdout, writes, thrown, setFailed>>

\* variant: the output step does not wait for the end of the update loop
WriteManifestEarly ==
  /\ pc = "resolve"
  /\ inflight = {}
  /\ IF Truthy(manifestPath)
       THEN /\ file' = Some(JSONstringify(addons))
            /\ writes' = writes + 1
            /\ UNCHANGED stdout
       ELSE /\ stdout' = Append(stdout, [indent |-> 2, json |-> JSONstringify(addons)])
            /\ UNCHANGED <<file, writes>>
  /\ pc' = "done"
  /\ UNCHANGED <<caller, input, dirExists, dir, startFile, runNo, nmVars,
                 manifestPath, addons, encounteredValidationError, fileIdx,
                 existingManifest, existingIdx, manifestRead, addonIdx, inflight,
                 calls, validationLog, warnings, updateLog, thrown, setFailed>>

\* lines 141-150: after the update loop, write the file or print
WriteManifest ==
  /\ pc = "resolve"
  /\ inflight = {}
  /\ addonIdx > Len(addons)
  /\ IF Truthy(manifestPath)
       THEN /\ file' = Some(JSONstringify(addons))
            /\ writes' = writes + 1
            /\ UNCHANGED stdout
       ELSE /\ stdout' = Append(stdout, [indent |-> 2, json |-> JSONstringify(addons)])
            /\ UNCHANGED <<file, writes>>
  /\ pc' = "done"
  /\ UNCHANGED <<caller, input, dirExists, dir, startFile, runNo, nmVars,
                 manifestPath, addons, encounteredValidationError, fileIdx,
                 existingManifest, existingIdx, manifestRead, addonIdx, inflight,
                 calls, validationLog, warnings, updateLog, thrown, setFailed>>

\* a later run on the same directory and the same manifest path
Rerun ==
  /\ pc = "done"
  /\ runNo < MaxRuns
  /\ runNo' = runNo + 1
  /\ startFile' = file
  /\ pc' = "run"
  /\ manifestPath' = None
  /\ addons' = << >>
  /\ encounteredValidationError' = FALSE
  /\ fileIdx' = 1
  /\ existingManifest' = << >>
  /\ existingIdx' = 1
  /\ manifestRead' = FALSE
  /\ addonIdx' = 1
  /\ inflight' = {}
  /\ calls' = << >>
  /\ validationLog' = << >>
  /\ warnings' = << >>
  /\ updateLog' = << >>
  /\ stdout' = << >>
  /\ writes' = 0
  /\ thrown' = None
  /\ setFailed' = None
  /\ UNCHANGED <<caller, input, dirExists, dir, file, nmVars>>

Next ==
  \/ Run
  \/ GenerateStart
  \/ ScanFile
  \/ CheckValidation
  \/ LoadManifest
  \/ MergeEntry
  \/ ResolveCall
  \/ ResolveSettle
  \/ WriteManifest
  \/ Rerun

Spec == Init /\ [][Next]_vars

(***************************************************************************)
(* The alias helper on its own: addAddonName applied repeatedly to one     *)
(* add-on whose addon_names starts undefined or as a duplicate-free list.  *)
(***************************************************************************)
NoDuplicates(s) == \A i, j \in 1..Len(s) : s[i] = s[j] => i = j

InitialNames ==
  {None} \cup {Some(s) : s \in {t \in SeqsUpTo(Names, 2) : NoDuplicates(t)}}

NamesInit ==
  /\ runNo = 1 /\ caller = "direct" /\ input = "" /\ dirExists = TRUE
  /\ dir = << >> /\ file = None /\ startFile = None
  /\ pc = "idle" /\ manifestPath = None
  /\ RunInit
  /\ nmInit \in InitialNames
  /\ nmAddon = [IdleAddon EXCEPT !.addon_names = nmInit]
  /\ nmCalls = << >>

CallAddAddonName ==
  /\ pc = "idle"
  /\ Len(nmCalls) < MaxCalls
  /\ \E name \in Names :
       /\ nmAddon' = addAddonName(nmAddon, name)
       /\ nmCalls' = Append(nmCalls, name)
  /\ UNCHANGED <<envVars, runVars, nmInit>>

NamesNext == CallAddAddonName

NamesSpec == NamesInit /\ [][NamesNext]_vars


(***************************************************************************)
(* Properties.                                                             *)
(***************************************************************************)
ZodFiles == {i \in 1..Len(dir) : dir[i].kind = "zod"}
OtherBadFiles == {i \in 1..Len(dir) : dir[i].kind \in {"unreadable", "syntax"}}

\* no manifest has been produced by the current run
NoManifestProduced == writes = 0 /\ stdout = << >> /\ file = startFile

\* the scan loop has been left
ScanLeft == pc \in {"load", "merge", "resolve", "done", "failed"} /\ dirExists
              /\ manifestPath # Some("")

\* the manifest the finished run produced
Output == IF Truthy(manifestPath) THEN file[1] ELSE stdout[1].json

\* the entries of a manifest document as the pipeline writes and means them
EntriesOf(json) == IF json.type = "array" THEN json.items ELSE json.addons

CarriedOfEntry(e) == <<Prop(e, "release"), Prop(e, "prerelease"), Prop(e, "addon_names")>>

\* a manifest existed at manifestPath when the run started
ManifestExisted == Truthy(manifestPath) /\ startFile # None

\* the state in which the first resolver is about to be invoked
EnteringResolution == pc = "resolve" /\ calls = << >>

\* C1: when k > 0 files fail schema validation and no file fails otherwise,
\* every file is scanned, every validation error of every failing file is
\* reported, the run fails with 'Validation of some addons failed', and no
\* manifest is written or printed.
C1_ValidateAllBeforeFail ==
  (ScanLeft /\ ZodFiles # {} /\ OtherBadFiles = {}) =>
    /\ pc = "failed"
    /\ thrown = Some(ValidationFailed)
    /\ fileIdx = Len(dir) + 1
    /\ \A i \in ZodFiles : \A j \in 1..Len(dir[i].errors) :
         \E k \in 1..Len(validationLog) :
           validationLog[k] = [file |-> i, message |-> dir[i].errors[j]]
    /\ NoManifestProduced
    /\ calls = << >>

C1_Witness ==
  /\ pc = "failed"
  /\ thrown = Some(ValidationFailed)
  /\ Cardinality(ZodFiles) >= 2
  /\ \E i \in 1..Len(dir) : dir[i].kind = "ok" /\ \E j \in ZodFiles : j < i
  /\ Len(validationLog) >= 3

\* C2: a second run on the manifest the first run wrote, with the same batch,
\* loads that file and every add-on enters resolution with the release,
\* prerelease and addon_names the first run serialised.
C2_RoundTrip ==
  (runNo > 1 /\ ManifestExisted /\ pc \in {"merge", "resolve", "done", "failed"}) =>
    /\ thrown = None
    /\ manifestRead
    /\ EnteringResolution =>
         \A i \in 1..Len(addons) :
           Carried(addons[i]) = CarriedOfEntry(EntriesOf(startFile[1])[i])

\* C3: when a manifest exists at manifestPath, every add-on of the validated
\* batch whose package.id matches an old entry enters resolution with exactly
\* the old entry's release, prerelease and addon_names; the others unchanged.
C3_CarryForward ==
  ManifestExisted =>
    /\ thrown # Some(NotIterable)
    /\ EnteringResolution =>
         \A i \in 1..Len(addons) :
           LET old == {e \in Range(EntriesOf(startFile[1])) :
                         e.package.id = addons[i].package.id}
           IN IF old # {}
                THEN \E e \in old : Carried(addons[i]) = CarriedOfEntry(e)
                ELSE addons[i] = dir[i].config

\* C4: a resolver that throws does not abort the run: the error is logged
\* with the add-on's package.name, every later add-on still has its resolver
\* invoked, the add-on is part of the output, and the run does not fail.
C4_Isolation ==
  /\ calls # << >> => (thrown = None /\ setFailed = None /\ pc \in {"resolve", "done"})
  /\ Len(updateLog) = Cardinality({k \in 1..Len(calls) : calls[k].status = "threw"})
  /\ \A k \in 1..Len(calls) : calls[k].status = "threw" =>
       /\ Includes(updateLog, addons[calls[k].addon].package.name)
       /\ pc = "done" =>
            /\ \A j \in (calls[k].addon + 1)..Len(addons) :
                 \E c \in 1..Len(calls) :
                   calls[c].addon = j /\ calls[c].status # "pending"
            /\ Len(Output.addons) = Len(dir)
            /\ Output.addons[calls[k].addon] = StringifyAddon(addons[calls[k].addon])
            /\ Output.addons[calls[k].addon].package = dir[calls[k].addon].config.package

C4_Witness ==
  /\ pc = "done"
  /\ \E k \in 1..(Len(calls) - 1) :
       calls[k].status = "threw" /\ calls[k + 1].status = "returned"

FirstOtherBad == CHOOSE i \in OtherBadFiles : \A j \in OtherBadFiles : i <= j

\* C6: a file that fails for a reason other than schema validation aborts
\* the run with that error at once: no file after it is scanned, also when
\* earlier files had set the validation flag.
C6_FailFast ==
  OtherBadFiles # {} =>
    /\ fileIdx <= FirstOtherBad
    /\ \A k \in 1..Len(validationLog) : validationLog[k].file < FirstOtherBad
    /\ Len(addons) < FirstOtherBad
    /\ ScanLeft =>
         /\ pc = "failed"
         /\ fileIdx = FirstOtherBad
         /\ thrown = Some(IF dir[FirstOtherBad].kind = "unreadable"
                            THEN ReadError ELSE SyntaxError)

C6_Witness ==
  /\ pc = "failed"
  /\ thrown = Some(SyntaxError)
  /\ encounteredValidationError
  /\ fileIdx < Len(dir)

\* C7: every old entry whose package.id matches no add-on of the batch is
\* warned about and absent from the output, and the run does not fail.
C7_DroppedWarns ==
  ManifestExisted =>
    /\ thrown # Some(NotIterable)
    /\ pc \in {"resolve", "done"} =>
         \A e \in Range(EntriesOf(startFile[1])) :
           (\A i \in 1..Len(addons) : addons[i].package.id # e.package.id) =>
             /\ Includes(warnings, e.package.id)
             /\ pc = "done" =>
                  \A i \in 1..Len(Output.addons) :
                    Output.addons[i].package.id # e.package.id

\* C9: resolvers run one at a time in batch order, each add-on's resolver is
\* invoked once, with the variant of its host, and the next one is started
\* only when the previous one has returned or thrown.
C9_Sequential ==
  /\ Cardinality(inflight) <= 1
  /\ Len(calls) <= Len(addons)
  /\ \A k \in 1..Len(calls) :
       /\ calls[k].addon = k
       /\ calls[k].status = "pending" <=> (k = Len(calls) /\ inflight = {k})
       /\ addons[k].host = "github" => calls[k].resolver = "updateFromGithub"
       /\ addons[k].host = "standalone" => calls[k].resolver = "updateStandalone"
  /\ pc = "done" => (Len(calls) = Len(addons) /\ inflight = {})

C9_Witness ==
  /\ pc = "done"
  /\ Len(calls) >= 2
  /\ calls[1].resolver # calls[2].resolver

\* C10: the merge is complete before the first resolver is invoked, the
\* manifest is produced once and only after the last resolver has settled,
\* what a resolver wrote is what is serialised, and an existing manifest
\* file is not overwritten before it has been read.
C10_PhaseOrder ==
  /\ calls # << >> =>
       (pc \in {"resolve", "done"} /\ existingIdx > Len(existingManifest))
  /\ writes + Len(stdout) = (IF pc = "done" THEN 1 ELSE 0)
  /\ file # startFile => pc = "done"
  /\ (writes > 0 /\ startFile # None) => manifestRead
  /\ pc = "done" =>
       /\ Len(calls) = Len(addons)
       /\ \A k \in 1..Len(calls) : calls[k].status # "pending"
       /\ Output = JSONstringify(addons)
       /\ \A k \in 1..Len(calls) : calls[k].status = "returned" =>
            /\ Prop(Output.addons[k], "release") = Some(NewRelease)
            /\ Includes(Output.addons[k].addon_names, ResolvedName)

C10_Witness ==
  /\ pc = "done"
  /\ writes = 1
  /\ \E k \in 1..Len(calls) :
       /\ calls[k].status = "returned"
       /\ \E e \in Range(existingManifest) :
            /\ e.package.id = addons[k].package.id
            /\ Prop(e, "release") = Some("1.2.0")
       /\ addons[k].addon_names = Some(<<"Foo", "Bar">>)

(***************************************************************************)
(* Properties of the alias helper, under NamesSpec.                        *)
(***************************************************************************)
\* the names of s that are not in seen, each once, in order of first occurrence
RECURSIVE FirstOccurrences(_, _)
FirstOccurrences(s, seen) ==
  IF s = << >> THEN << >>
  ELSE IF Head(s) \in seen THEN FirstOccurrences(Tail(s), seen)
  ELSE <<Head(s)>> \o FirstOccurrences(Tail(s), seen \cup {Head(s)})

InitialList == IF nmInit = None THEN << >> ELSE nmInit[1]

\* C8: after any sequence of addAddonName calls addon_names has no duplicate,
\* contains every name passed, keeps the earlier names in place and lists new
\* names in order of first insertion; a repeated call changes nothing.
C8_AliasAppend ==
  /\ nmCalls # << >> =>
       /\ nmAddon.addon_names # None
       /\ NoDuplicates(nmAddon.addon_names[1])
       /\ \A i \in 1..Len(nmCalls) : Includes(nmAddon.addon_names[1], nmCalls[i])
       /\ nmAddon.addon_names[1] =
            InitialList \o FirstOccurrences(nmCalls, Range(InitialList))
  /\ nmCalls = << >> => nmAddon.addon_names = nmInit
  /\ \A name \in Names :
       addAddonName(addAddonName(nmAddon, name), name) = addAddonName(nmAddon, name)

C8_Witness ==
  /\ nmInit = Some(<<"Baz">>)
  /\ nmCalls = <<"Foo", "Bar", "Foo">>
  /\ nmAddon.addon_names = Some(<<"Baz", "Foo", "Bar">>)

=============================================================================
